---- MODULE Spec2Model ----
(***************************************************************************)
(* mscclpp: the device-wide barrier DeviceSyncer                           *)
(* (include/mscclpp/concurrency_device.hpp) and the zero-filling           *)
(* allocators around detail::safeAlloc (include/mscclpp/gpu_utils.hpp).    *)
(*                                                                         *)
(* A unit is a thread block; thread 0 of a unit is its coordinator         *)
(* (threadIdx.x == 0).  The fields of the DeviceSyncer object live in one   *)
(* coherent device memory: count_ is only touched by atomicInc, flag_ is   *)
(* volatile, isIncFlag_ is a plain int whose reads race with its stores.   *)
(* The stores a unit issues before it calls sync (its payload)             *)
(* are ordinary stores: they stay pending in the unit until they drain on  *)
(* their own or until the unit executes __threadfence().                   *)
(***************************************************************************)
EXTENDS Integers, FiniteSets, Sequences, TLC

\* ------------------------------------------------------------------ bounds
\* Units (thread blocks) of a launch of single-threaded units.
NumUnits == 3
\* Units of a launch that is followed thread by thread, or under fairness.
FewUnits == 2
\* Threads of a unit, where units have several.
NumThreads == 2
\* Rounds a DeviceSyncer object goes through.
MaxRounds == 2
\* The largest maxSpinCount passed to sync.
MaxSpin == 1
\* Allocations the device and the host can hold together.
MaxBlocks == 2
\* Calls of safeAlloc.
MaxCalls == 3

VARIABLES
  flag_,          \* DeviceSyncer::flag_      (volatile int)
  count_,         \* DeviceSyncer::count_     (unsigned int)
  isIncFlag_,     \* DeviceSyncer::isIncFlag_ (int)
  pc,             \* pc[u][t]: where thread t of unit u stands
  tmp,            \* tmp[u]: the coordinator's local `tmp`
  spin,           \* spin[u]: the coordinator's __spin_cnt
  blockNum,       \* the blockNum argument of the calls of this launch
  maxSpinCount,   \* the maxSpinCount argument of the calls of this launch
  parts,          \* the units that call sync in this launch
  done,           \* done[u]: calls of sync unit u has returned from
  used,           \* rounds the object went through in earlier launches
  mem,            \* mem[u]: unit u's payload slot in device memory
  wbuf,           \* wbuf[u]: unit u's payload stores not yet in device memory
  \* safeAlloc and the allocators
  apc,            \* where the call of safeAlloc stands
  kind,           \* the alloc function safeAlloc was instantiated with
  heap,           \* heap[a]: the contents of each live allocation a
  owned,          \* allocations held by a returned Memory object
  cptr,           \* `ptr` of cudaCalloc / cudaExtCalloc / cudaHostCalloc (0: none)
  sptr,           \* `ptr` of safeAlloc (0: nullptr)
  stream,         \* the CudaStreamWithFlags of the allocator is alive
  guard,          \* the AvoidCudaGraphCaptureGuard of the allocator is alive
  outcome,        \* how the last call of safeAlloc ended
  calls           \* calls of safeAlloc so far

vars == <<flag_, count_, isIncFlag_, pc, tmp, spin, blockNum, maxSpinCount,
          parts, done, used, mem, wbuf,
          apc, kind, heap, owned, cptr, sptr, stream, guard, outcome, calls>>

allocVars == <<apc, kind, heap, owned, cptr, sptr, stream, guard, outcome, calls>>
syncVars == <<flag_, count_, isIncFlag_, pc, tmp, spin, blockNum, maxSpinCount,
              parts, done, used, mem, wbuf>>

syncerVars == <<flag_, count_, isIncFlag_>>
launchVars == <<blockNum, maxSpinCount, parts, used>>

Units == DOMAIN pc
Threads(u) == DOMAIN pc[u]
Coordinator == 0

\* ------------------------------------------------------- pure helpers
\* (mutant) an increment that never wraps to zero.
AtomicIncNoWrap(old, val) == old + 1

\* atomicInc(addr, val): ((old >= val) ? 0 : (old + 1)) is stored, old returned.
AtomicIncStore(old, val) == IF old >= val THEN 0 ELSE old + 1

\* (mutant) the counter wraps one arrival late.
MaxOldCntWhole(n) == n

\* unsigned int maxOldCnt = blockNum - 1;
MaxOldCnt(n) == n - 1

\* (mutant) the target is not the complement of isIncFlag_.
Xor1Identity(b) == b

\* int tmp = isIncFlag_ ^ 1;
Xor1(b) == IF b = 1 THEN 0 ELSE 1

\* (mutant) the two poll conditions swapped.
PollCondInverted(t, f) == IF t = 1 THEN f # 0 ELSE f = 0

\* The poll condition: !flag_ when tmp is 1, flag_ when tmp is 0.
PollCond(t, f) == IF t = 1 THEN f = 0 ELSE f # 0

\* (mutant) a fence that orders nothing.
FenceLeavesPending(pending) == pending

\* What __threadfence() leaves pending of the unit's earlier stores.
FenceLeaves(pending) == << >>

\* (mutant) a barrier that opens for the first thread to reach it.
BarrierOpenAny(u, at) == \E t \in Threads(u) : pc[u][t] = at

\* __syncthreads() lets the threads of a unit go on once all of them wait at it.
BarrierOpen(u, at) == \A t \in Threads(u) : pc[u][t] = at

\* The threads waiting at a barrier of unit u go on, thread t to to[t].
Release(u, at, to) ==
  [pc EXCEPT ![u] = [t \in Threads(u) |-> IF pc[u][t] = at THEN to[t] ELSE pc[u][t]]]

\* ------------------------------------------------------------ launches
\* The arguments and the callers of one launch: n is blockNum, p the units that
\* call sync, m is maxSpinCount.  Either all n expected units call, or one of
\* them is missing; with n = 1 any number of units may call.
Prefix(k) == 1..k

Configs(U, spins) ==
  { c \in [n : 1..Cardinality(U), p : SUBSET U, m : spins] :
      /\ c.p # {}
      /\ c.n > 1 => Cardinality(c.p) \in {c.n, c.n - 1} }

\* Units are interchangeable: the first launch takes its callers in order.
FirstConfigs(U, spins) == { c \in Configs(U, spins) : c.p = Prefix(Cardinality(c.p)) }

\* No call of safeAlloc has been made.
InitAlloc ==
  /\ apc = "idle" /\ kind = "cudaCalloc"
  /\ heap = [a \in 1..MaxBlocks |-> "free"] /\ owned = {}
  /\ cptr = 0 /\ sptr = 0
  /\ stream = FALSE /\ guard = FALSE
  /\ outcome = "none" /\ calls = 0

InitUnits(U, T, C) ==
  /\ flag_ = 0 /\ count_ = 0 /\ isIncFlag_ = 0
  /\ pc = [u \in U |-> [t \in T |-> "out"]]
  /\ tmp = [u \in U |-> 0]
  /\ spin = [u \in U |-> 0]
  /\ done = [u \in U |-> 0]
  /\ mem = [u \in U |-> 0]
  /\ wbuf = [u \in U |-> << >>]
  /\ used = 0
  /\ \E c \in C : blockNum = c.n /\ parts = c.p /\ maxSpinCount = c.m
  /\ InitAlloc

AllUnits == 1..NumUnits
OneThread == {0}
AllThreads == 0..(NumThreads - 1)
SpinCounts == (-1)..MaxSpin
\* No bound, or the largest bound.
EndSpinCounts == {-1, MaxSpin}

Init == InitUnits(AllUnits, OneThread, FirstConfigs(AllUnits, EndSpinCounts))

\* ------------------------------------------------------------- actions
\* A thread of a participating unit stores the unit's payload for the round
\* (the number of the round) and calls sync(blockNum, maxSpinCount): it reaches
\* the first __syncthreads().
Call(u, t) ==
  /\ u \in parts
  /\ pc[u][t] = "out"
  /\ used + done[u] < MaxRounds
  /\ pc' = [pc EXCEPT ![u][t] = "sync1"]
  /\ wbuf' = [wbuf EXCEPT ![u] = <<done[u] + 1>>]
  /\ UNCHANGED <<syncerVars, tmp, spin, launchVars, done, mem>>
  /\ UNCHANGED allocVars

\* A pending payload store reaches device memory.
Drain(u) ==
  /\ wbuf[u] # << >>
  /\ mem' = [mem EXCEPT ![u] = Head(wbuf[u])]
  /\ wbuf' = [wbuf EXCEPT ![u] = Tail(@)]
  /\ UNCHANGED <<syncerVars, pc, tmp, spin, launchVars, done>>
  /\ UNCHANGED allocVars

\* (mutant) the early return for blockNum == 1 is missing.
EarlyReturnNever(n) == FALSE

\* if (blockNum == 1) return;
EarlyReturn(n) == n = 1

\* __syncthreads(); if (blockNum == 1) return;
SyncThreads1(u) ==
  /\ BarrierOpen(u, "sync1")
  /\ IF EarlyReturn(blockNum)
     THEN /\ pc' = Release(u, "sync1", [t \in Threads(u) |-> "out"])
          /\ done' = [done EXCEPT ![u] = @ + 1]
     ELSE /\ pc' = Release(u, "sync1",
                      [t \in Threads(u) |-> IF t = Coordinator THEN "fence" ELSE "sync2"])
          /\ UNCHANGED done
  /\ UNCHANGED <<syncerVars, tmp, spin, launchVars, mem, wbuf>>
  /\ UNCHANGED allocVars

\* __threadfence();
ThreadFence(u) ==
  /\ pc[u][Coordinator] = "fence"
  /\ mem' = [mem EXCEPT ![u] = IF wbuf[u] # << >> /\ FenceLeaves(wbuf[u]) = << >>
                               THEN Head(wbuf[u]) ELSE @]
  /\ wbuf' = [wbuf EXCEPT ![u] = FenceLeaves(@)]
  /\ pc' = [pc EXCEPT ![u][Coordinator] = "load"]
  /\ UNCHANGED <<syncerVars, tmp, spin, launchVars, done>>
  /\ UNCHANGED allocVars

\* What a plain read of isIncFlag_ can return: the value in memory, or the
\* value of a plain store another coordinator is making at the same time
\* (isIncFlag_ = tmp; of a unit that has left its poll): the two accesses race.
IsIncFlagReads ==
  {isIncFlag_} \cup {tmp[v] : v \in {w \in Units : pc[w][Coordinator] = "store"}}

\* int tmp = isIncFlag_ ^ 1;
LoadIsIncFlag(u) ==
  /\ pc[u][Coordinator] = "load"
  /\ \E b \in IsIncFlagReads : tmp' = [tmp EXCEPT ![u] = Xor1(b)]
  /\ pc' = [pc EXCEPT ![u][Coordinator] = "inc"]
  /\ UNCHANGED <<syncerVars, spin, launchVars, done, mem, wbuf>>
  /\ UNCHANGED allocVars

\* (mutant) the releaser is the unit before the last one.
IsReleaserEarly(old, n) == old = MaxOldCnt(n) - 1

\* if (atomicInc(&count_, maxOldCnt) == maxOldCnt) ...
IsReleaser(old, n) == old = MaxOldCnt(n)

\* The coordinator goes on to the store to flag_ or straight to the poll, whose
\* spin count starts at 0.
AtomicInc(u) ==
  /\ pc[u][Coordinator] = "inc"
  /\ count_' = AtomicIncStore(count_, MaxOldCnt(blockNum))
  /\ pc' = [pc EXCEPT ![u][Coordinator] =
              IF IsReleaser(count_, blockNum) THEN "set" ELSE "poll"]
  /\ spin' = [spin EXCEPT ![u] = 0]
  /\ UNCHANGED <<flag_, isIncFlag_, tmp, launchVars, done, mem, wbuf>>
  /\ UNCHANGED allocVars

\* (mutant) the two stores to flag_ swapped.
FlagStoreOpposite(t) == 1 - t

\* flag_ = 1;  (tmp is 1)   flag_ = 0;  (tmp is 0)
FlagStore(t) == t

SetFlag(u) ==
  /\ pc[u][Coordinator] = "set"
  /\ flag_' = FlagStore(tmp[u])
  /\ pc' = [pc EXCEPT ![u][Coordinator] = "poll"]
  /\ UNCHANGED <<count_, isIncFlag_, tmp, spin, launchVars, done, mem, wbuf>>
  /\ UNCHANGED allocVars

\* POLL_MAYBE_JAILBREAK(!flag_, maxSpinCount) or POLL_MAYBE_JAILBREAK(flag_,
\* maxSpinCount): one evaluation of the condition.  A fault stops the
\* coordinator for good; the other units go on until they fault themselves.
\* The loop runs while the condition holds; an iteration faults when the bound
\* is enabled (max >= 0) and max iterations have gone by, and counts otherwise.
SpinOut(cnt, max) == max >= 0 /\ cnt = max

SpinNext(cnt, max) == IF max >= 0 THEN cnt + 1 ELSE cnt

\* (mutant) a coordinator that runs out of spins arrives again instead of
\* faulting.
PollRetries(u) ==
  /\ pc[u][Coordinator] = "poll"
  /\ IF ~PollCond(tmp[u], flag_)
     THEN /\ pc' = [pc EXCEPT ![u][Coordinator] = "store"]
          /\ spin' = [spin EXCEPT ![u] = 0]
     ELSE IF SpinOut(spin[u], maxSpinCount)
     THEN /\ pc' = [pc EXCEPT ![u][Coordinator] = "inc"]
          /\ UNCHANGED spin
     ELSE /\ spin' = [spin EXCEPT ![u] = SpinNext(@, maxSpinCount)]
          /\ UNCHANGED pc
  /\ UNCHANGED <<syncerVars, tmp, launchVars, done, mem, wbuf>>
  /\ UNCHANGED allocVars

Poll(u) ==
  /\ pc[u][Coordinator] = "poll"
  /\ IF ~PollCond(tmp[u], flag_)
     THEN /\ pc' = [pc EXCEPT ![u][Coordinator] = "store"]
          /\ spin' = [spin EXCEPT ![u] = 0]
     ELSE IF SpinOut(spin[u], maxSpinCount)
     THEN /\ pc' = [pc EXCEPT ![u][Coordinator] = "fault"]
          /\ UNCHANGED spin
     ELSE /\ spin' = [spin EXCEPT ![u] = SpinNext(@, maxSpinCount)]
          /\ UNCHANGED pc
  /\ UNCHANGED <<syncerVars, tmp, launchVars, done, mem, wbuf>>
  /\ UNCHANGED allocVars

\* (mutant) the target of the round is not recorded in isIncFlag_.
StoreIsIncFlagDropped(u) ==
  /\ pc[u][Coordinator] = "store"
  /\ tmp' = [tmp EXCEPT ![u] = 0]
  /\ pc' = [pc EXCEPT ![u][Coordinator] = "sync2"]
  /\ UNCHANGED <<flag_, count_, isIncFlag_, spin, launchVars, done, mem, wbuf>>
  /\ UNCHANGED allocVars

\* isIncFlag_ = tmp;  (tmp is dead afterwards)
StoreIsIncFlag(u) ==
  /\ pc[u][Coordinator] = "store"
  /\ isIncFlag_' = tmp[u]
  /\ tmp' = [tmp EXCEPT ![u] = 0]
  /\ pc' = [pc EXCEPT ![u][Coordinator] = "sync2"]
  /\ UNCHANGED <<flag_, count_, spin, launchVars, done, mem, wbuf>>
  /\ UNCHANGED allocVars

\* The closing __syncthreads(): every thread of the unit returns from sync.
SyncThreads2(u) ==
  /\ BarrierOpen(u, "sync2")
  /\ pc' = Release(u, "sync2", [t \in Threads(u) |-> "out"])
  /\ done' = [done EXCEPT ![u] = @ + 1]
  /\ UNCHANGED <<syncerVars, tmp, spin, launchVars, mem, wbuf>>
  /\ UNCHANGED allocVars

\* A serialized round boundary: every participant has returned from the same
\* number of calls and no thread is inside sync; the next calls may come from
\* another set of units with another blockNum and maxSpinCount.
Quiescent ==
  /\ \A u \in Units : \A t \in Threads(u) : pc[u][t] = "out"
  /\ \A u, v \in parts : done[u] = done[v]
  /\ \E u \in parts : done[u] > 0

Relaunch ==
  /\ Quiescent
  /\ \E u \in parts : used' = used + done[u]
  /\ used' < MaxRounds
  /\ \E c \in Configs(Units, EndSpinCounts) :
       blockNum' = c.n /\ parts' = c.p /\ maxSpinCount' = c.m
  /\ done' = [u \in Units |-> 0]
  /\ mem' = [u \in Units |-> 0]
  /\ wbuf' = [u \in Units |-> << >>]
  /\ UNCHANGED <<syncerVars, pc, tmp, spin>>
  /\ UNCHANGED allocVars

\* ---------------------------------------------------------- allocation
\* The alloc functions safeAlloc is instantiated with.
DeviceAllocs == {"cudaCalloc", "cudaExtCalloc"}
Allocs == DeviceAllocs \cup {"cudaHostCalloc"}

Live == {a \in DOMAIN heap : heap[a] # "free"}

\* Memory safeAlloc<T, alloc, Deleter, Memory>(size_t nelem) is entered:
\* T* ptr = nullptr; try { ptr = alloc(nelem);
\* and alloc starts with AvoidCudaGraphCaptureGuard cgcGuard; T* ptr;
SafeAllocCall(k) ==
  /\ apc = "idle"
  /\ calls < MaxCalls
  /\ calls' = calls + 1
  /\ kind' = k
  /\ sptr' = 0
  /\ cptr' = 0
  /\ guard' = TRUE
  /\ outcome' = "running"
  /\ apc' = IF k \in DeviceAllocs THEN "stream" ELSE "hostalloc"
  /\ UNCHANGED <<heap, owned, stream>>
  /\ UNCHANGED syncVars

\* CudaStreamWithFlags stream(cudaStreamNonBlocking);
StreamCtor ==
  /\ apc = "stream"
  /\ stream' = TRUE
  /\ apc' = "malloc"
  /\ UNCHANGED <<kind, heap, owned, cptr, sptr, guard, outcome, calls>>
  /\ UNCHANGED syncVars

\* MSCCLPP_CUDATHROW(cudaMalloc(&ptr, nelem * sizeof(T)));  (or
\* hipExtMallocWithFlags); the call fails, or hands out memory not yet written.
CudaMalloc ==
  /\ apc = "malloc"
  /\ \/ /\ \E a \in DOMAIN heap \ Live :
             /\ cptr' = a
             /\ heap' = [heap EXCEPT ![a] = "raw"]
        /\ apc' = "memset"
     \/ /\ apc' = "throw"
        /\ UNCHANGED <<cptr, heap>>
  /\ UNCHANGED <<kind, owned, sptr, stream, guard, outcome, calls>>
  /\ UNCHANGED syncVars

\* MSCCLPP_CUDATHROW(cudaMemsetAsync(ptr, 0, nelem * sizeof(T), stream));
CudaMemsetAsync ==
  /\ apc = "memset"
  /\ \/ /\ heap' = [heap EXCEPT ![cptr] = "queued"]
        /\ apc' = "streamsync"
     \/ /\ apc' = "throw"
        /\ UNCHANGED heap
  /\ UNCHANGED <<kind, owned, cptr, sptr, stream, guard, outcome, calls>>
  /\ UNCHANGED syncVars

\* (mutant) the allocator does not wait for the stream of the memset.
CudaStreamSynchronizeSkipped ==
  /\ apc = "streamsync"
  /\ apc' = "return"
  /\ UNCHANGED <<kind, heap, owned, cptr, sptr, stream, guard, outcome, calls>>
  /\ UNCHANGED syncVars

\* MSCCLPP_CUDATHROW(cudaStreamSynchronize(stream));
CudaStreamSynchronize ==
  /\ apc = "streamsync"
  /\ \/ /\ heap' = [heap EXCEPT ![cptr] = "zero"]
        /\ apc' = "return"
     \/ /\ apc' = "throw"
        /\ UNCHANGED heap
  /\ UNCHANGED <<kind, owned, cptr, sptr, stream, guard, outcome, calls>>
  /\ UNCHANGED syncVars

\* MSCCLPP_CUDATHROW(cudaHostAlloc(&ptr, nelem * sizeof(T), ...));
CudaHostAlloc ==
  /\ apc = "hostalloc"
  /\ \/ /\ \E a \in DOMAIN heap \ Live :
             /\ cptr' = a
             /\ heap' = [heap EXCEPT ![a] = "raw"]
        /\ apc' = "hostmemset"
     \/ /\ apc' = "throw"
        /\ UNCHANGED <<cptr, heap>>
  /\ UNCHANGED <<kind, owned, sptr, stream, guard, outcome, calls>>
  /\ UNCHANGED syncVars

\* memset(ptr, 0, nelem * sizeof(T));
HostMemset ==
  /\ apc = "hostmemset"
  /\ heap' = [heap EXCEPT ![cptr] = "zero"]
  /\ apc' = "return"
  /\ UNCHANGED <<kind, owned, cptr, sptr, stream, guard, outcome, calls>>
  /\ UNCHANGED syncVars

\* What the allocator's locals hold on to when the allocator is left, by return
\* or by an exception: the stream and the guard are destroyed, and the raw
\* pointer is a plain T* that releases nothing.
\* return ptr;  and in safeAlloc: ptr = alloc(nelem);
AllocReturn ==
  /\ apc = "return"
  /\ sptr' = cptr
  /\ cptr' = 0
  /\ stream' = FALSE
  /\ guard' = FALSE
  /\ apc' = "wrap"
  /\ UNCHANGED <<kind, heap, owned, outcome, calls>>
  /\ UNCHANGED syncVars

\* An MSCCLPP_CUDATHROW of the allocator throws: the allocator's frame unwinds
\* and the assignment ptr = alloc(nelem) of safeAlloc does not take place.
AllocThrow ==
  /\ apc = "throw"
  /\ cptr' = 0
  /\ stream' = FALSE
  /\ guard' = FALSE
  /\ apc' = "catch"
  /\ UNCHANGED <<kind, heap, owned, sptr, outcome, calls>>
  /\ UNCHANGED syncVars

\* Deleter()(ptr): cudaFree(ptr) or cudaFreeHost(ptr).
Deleter(h, a) == [h EXCEPT ![a] = "free"]

\* catch (...) { if (ptr) { Deleter()(ptr); } throw; }
Catch ==
  /\ apc = "catch"
  /\ heap' = IF sptr # 0 THEN Deleter(heap, sptr) ELSE heap
  /\ sptr' = 0
  /\ outcome' = "failed"
  /\ apc' = "idle"
  /\ UNCHANGED <<kind, owned, cptr, stream, guard, calls>>
  /\ UNCHANGED syncVars

\* return Memory(ptr, Deleter());
Wrap ==
  /\ apc = "wrap"
  /\ owned' = owned \cup {sptr}
  /\ sptr' = 0
  /\ outcome' = "returned"
  /\ apc' = "idle"
  /\ UNCHANGED <<kind, heap, cptr, stream, guard, calls>>
  /\ UNCHANGED syncVars

\* The returned Memory object is destroyed: its deleter frees the allocation.
Destroy(a) ==
  /\ a \in owned
  /\ owned' = owned \ {a}
  /\ heap' = Deleter(heap, a)
  /\ UNCHANGED <<apc, kind, cptr, sptr, stream, guard, outcome, calls>>
  /\ UNCHANGED syncVars

NextAlloc ==
  \/ \E k \in Allocs : SafeAllocCall(k)
  \/ StreamCtor
  \/ CudaMalloc
  \/ CudaMemsetAsync
  \/ CudaStreamSynchronize
  \/ CudaHostAlloc
  \/ HostMemset
  \/ AllocReturn
  \/ AllocThrow
  \/ Catch
  \/ Wrap
  \/ \E a \in owned : Destroy(a)

Step ==
  \/ \E u \in Units : \E t \in Threads(u) : Call(u, t)
  \/ \E u \in Units : Drain(u)
  \/ \E u \in Units : SyncThreads1(u)
  \/ \E u \in Units : ThreadFence(u)
  \/ \E u \in Units : LoadIsIncFlag(u)
  \/ \E u \in Units : AtomicInc(u)
  \/ \E u \in Units : SetFlag(u)
  \/ \E u \in Units : Poll(u)
  \/ \E u \in Units : StoreIsIncFlag(u)
  \/ \E u \in Units : SyncThreads2(u)

Next == Step

\* One launch of single-threaded units; every kind of launch.
Spec == Init /\ [][Next]_vars

\* Units of several threads; all expected units call.
InitThreads == InitUnits(1..FewUnits, AllThreads, FirstConfigs(1..FewUnits, {-1}))
SpecThreads == InitThreads /\ [][Next]_vars

\* Successive launches on the same object.
NextLaunch == Step \/ Relaunch
InitLaunch == InitUnits(AllUnits, OneThread, FirstConfigs(AllUnits, EndSpinCounts))
SpecLaunch == InitLaunch /\ [][NextLaunch]_vars

\* Calls of safeAlloc, one after the other; no kernel runs.
InitNoUnits ==
  /\ flag_ = 0 /\ count_ = 0 /\ isIncFlag_ = 0
  /\ pc = << >> /\ tmp = << >> /\ spin = << >> /\ done = << >>
  /\ mem = << >> /\ wbuf = << >>
  /\ used = 0 /\ blockNum = 1 /\ parts = {} /\ maxSpinCount = -1
  /\ InitAlloc
SpecAlloc == InitNoUnits /\ [][NextAlloc]_vars

\* The same launches under a scheduler that keeps running some thread that
\* can take a step.
InitFair == InitUnits(1..FewUnits, OneThread, FirstConfigs(1..FewUnits, SpinCounts))
FairSpec == InitFair /\ [][Next]_vars /\ WF_vars(Next)

\* ------------------------------------------------------------- vocabulary
\* The coordinator of v has performed the atomicInc of its current call.
AfterInc == {"set", "poll", "store", "sync2", "fault"}

\* Calls of sync in which unit v has incremented count_.
Arrivals(v) == done[v] + IF pc[v][Coordinator] \in AfterInc THEN 1 ELSE 0

\* All blockNum expected units call sync in this launch.
FullLaunch == blockNum > 1 /\ Cardinality(parts) = blockNum

\* One of the expected units never calls.
StuckLaunch == blockNum > 1 /\ Cardinality(parts) = blockNum - 1

Faulted(u) == pc[u][Coordinator] = "fault"

Returned(u) == used + done[u] = MaxRounds /\ \A t \in Threads(u) : pc[u][t] = "out"

\* ------------------------------------------------------------------ C1
\* C1: barrier safety in every round.  With blockNum = N > 1, a unit that has
\* returned from its k-th call of sync finds that N units have incremented
\* count_ in their k-th call.
C1_BarrierSafety ==
  blockNum > 1 =>
    \A u \in parts :
      done[u] >= 1 =>
        Cardinality({v \in parts : Arrivals(v) >= done[u]}) >= blockNum

\* A unit has returned from its last round while another is still inside it.
C1_Witness ==
  /\ FullLaunch /\ blockNum = NumUnits
  /\ \E u, v \in parts :
       /\ done[u] = MaxRounds
       /\ done[v] = MaxRounds - 1 /\ pc[v][Coordinator] = "store"

\* ------------------------------------------------------------------ C2
\* C2 as claimed: whatever maxSpinCount is, when all N > 1 expected units
\* call sync, every call returns.
C2_AllCallsReturn ==
  FullLaunch => <>(\A u \in parts : Returned(u))

\* C2 as amended: when all N > 1 expected units call sync, no call hangs: every
\* unit ends up returned from all its calls or faulted, and with a negative
\* maxSpinCount every call returns.
C2_ReturnOrFault ==
  FullLaunch =>
    /\ <>(\A u \in parts : Returned(u) \/ Faulted(u))
    /\ maxSpinCount < 0 => <>(\A u \in parts : Returned(u))

\* All units of a full launch with a negative maxSpinCount have returned.
C2_Witness ==
  /\ FullLaunch /\ maxSpinCount < 0
  /\ \A u \in parts : Returned(u)

\* ------------------------------------------------------------------ C3
\* Rounds unit u has seen complete: its returns, and the call in which its
\* coordinator has already left the poll.
Completed(u) == done[u] + IF pc[u][Coordinator] \in {"store", "sync2"} THEN 1 ELSE 0

\* The value of flag_ once k rounds have completed on a zero-initialized object.
FlagAfter(k) == k % 2

FlagAlternates ==
  FullLaunch =>
    \A u \in parts :
      pc[u][Coordinator] \notin {"poll", "fault"} => flag_ = FlagAfter(Completed(u))

\* C3: round re-entrancy.  On the same object, without a reset, every further
\* round of the same N units completes (no call is left waiting when
\* maxSpinCount is negative), and flag_ is 1 after the first round, 0 after the
\* second, and so on: a unit that is not waiting in its poll sees flag_ equal to
\* the parity of the rounds it has seen complete.
C3_Reentrancy ==
  /\ []FlagAlternates
  /\ (FullLaunch /\ maxSpinCount < 0) => <>(\A u \in parts : Returned(u))

\* Every unit has returned from a second round, which left flag_ at 0, the
\* first round having left it at 1.
C3_Witness ==
  /\ FullLaunch /\ blockNum = FewUnits
  /\ \A u \in parts : done[u] = 2 /\ pc[u][Coordinator] = "out"
  /\ flag_ = 0 /\ FlagAfter(1) = 1

\* ------------------------------------------------------------------ C4
\* C4: stuck-round detection.  When only N-1 of the N expected units call and
\* maxSpinCount >= 0, no waiting coordinator goes through more than maxSpinCount
\* spin iterations, none returns, and every one of them ends up faulted.
C4_StuckRoundFaults ==
  /\ [](StuckLaunch /\ maxSpinCount >= 0 =>
          \A u \in parts : spin[u] <= maxSpinCount /\ done[u] = 0)
  /\ (StuckLaunch /\ maxSpinCount >= 0) => <>(\A u \in parts : Faulted(u))

\* The waiting unit of a stuck round has used its whole spin budget and faulted.
C4_Witness ==
  /\ StuckLaunch /\ maxSpinCount = MaxSpin
  /\ \A u \in parts : Faulted(u) /\ spin[u] = maxSpinCount

\* ------------------------------------------------------------------ C5
\* C5: a negative maxSpinCount disables the bound.  No call ever faults; when
\* all N units call, every call returns; when one is missing, the callers go on
\* waiting: none returns and none faults.
C5_NegativeNeverFaults ==
  /\ [](maxSpinCount < 0 => \A u \in Units : ~Faulted(u))
  /\ [](maxSpinCount < 0 /\ StuckLaunch => \A u \in parts : done[u] = 0)
  /\ (maxSpinCount < 0 /\ FullLaunch) => <>(\A u \in parts : Returned(u))
  /\ (maxSpinCount < 0 /\ StuckLaunch) =>
        <>[](\A u \in parts : pc[u][Coordinator] = "poll")

\* A unit polls without a bound while another expected unit has not arrived.
C5_Witness ==
  /\ maxSpinCount < 0 /\ FullLaunch
  /\ \E u, v \in parts : pc[u][Coordinator] = "poll" /\ pc[v][Coordinator] = "out"
                           /\ done[v] = done[u]

\* ------------------------------------------------------------------ C6
\* C6: with blockNum = 1 a call of sync only goes through the first
\* __syncthreads(): no step changes count_, flag_ or isIncFlag_, no coordinator
\* reaches the atomicInc, the poll or a fault, whatever maxSpinCount is and
\* whatever the earlier rounds left in the object.
C6_SingleUnitFrame ==
  /\ [](blockNum = 1 =>
          \A u \in Units : \A t \in Threads(u) : pc[u][t] \in {"out", "sync1"})
  /\ [][blockNum = 1 => UNCHANGED syncerVars]_vars

\* A call with blockNum = 1 has returned on an object that an earlier round
\* left with flag_ = 1 and isIncFlag_ = 1.
C6_Witness ==
  /\ blockNum = 1 /\ used > 0 /\ flag_ = 1 /\ isIncFlag_ = 1
  /\ \E u \in parts : done[u] = 1

\* ------------------------------------------------------------------ C7
\* What a thread of unit b reads from the payload slot of unit a.
Load(b, a) == IF b = a /\ wbuf[a] # << >> THEN Head(wbuf[a]) ELSE mem[a]

\* C7: memory visibility.  The payload a unit stores before its k-th call is
\* the number k.  Once unit b has returned from its k-th call, what it reads
\* from the slot of any other participant a is a's payload of round k (or of a
\* later round a has already started), never an older value.
C7_Visibility ==
  FullLaunch =>
    \A a, b \in parts : (a # b /\ done[b] >= 1) => Load(b, a) >= done[b]

\* b has returned from its second call and reads the payload a stored before
\* its own second call, from which a has not returned yet.
C7_Witness ==
  /\ FullLaunch
  /\ \E a, b \in parts :
       a # b /\ done[b] = 2 /\ done[a] = 1 /\ Load(b, a) = 2 /\ wbuf[a] = << >>

\* ------------------------------------------------------------------ C8
\* Calls of sync thread t of unit v has entered.
Entered(v, t) == done[v] + IF pc[v][t] # "out" THEN 1 ELSE 0

BetweenBarriers == {"fence", "load", "inc", "set", "poll", "store", "fault"}

\* C8: the thread-level guarantee.  No unit's threads have returned from their
\* k-th call before every thread of every participating unit has entered its
\* k-th call; and while a coordinator is between the two __syncthreads() (from
\* its fence to the store of isIncFlag_, the poll included), every thread of its
\* unit has entered the call and every other thread of its unit waits at the
\* closing __syncthreads().
C8_ThreadLevel ==
  blockNum > 1 =>
    /\ \A u, v \in parts : \A t \in Threads(v) : done[u] <= Entered(v, t)
    /\ \A u \in parts :
         pc[u][Coordinator] \in BetweenBarriers =>
           \A t \in Threads(u) \ {Coordinator} : pc[u][t] = "sync2"

\* The coordinator of one unit polls, its other threads wait at the closing
\* barrier, and a thread of another unit has not entered the call yet.
C8_Witness ==
  /\ FullLaunch
  /\ \E u, v \in parts :
       /\ u # v /\ pc[u][Coordinator] = "poll"
       /\ \E t \in Threads(u) \ {Coordinator} : pc[u][t] = "sync2"
       /\ \E t \in Threads(v) \ {Coordinator} : pc[v][t] = "out" /\ done[v] = done[u]
       /\ pc[v][Coordinator] = "sync1"

\* ----------------------------------------------------------------- C10
\* C10: reuse across serialized round boundaries.  Whatever blockNum and
\* whatever callers the earlier launches had, each launch keeps barrier safety,
\* a launch in which all expected units call never gets stuck (while a call is
\* open and no unit has faulted, some thread can take a step), and at every
\* serialized boundary the object holds count_ = 0 and isIncFlag_ = flag_.
C10_ReuseAcrossLaunches ==
  /\ C1_BarrierSafety
  /\ Quiescent => count_ = 0 /\ isIncFlag_ = flag_
  /\ (FullLaunch /\ (\A u \in parts : ~Faulted(u)) /\ ~(\A u \in parts : Returned(u)))
       => ENABLED <<Step>>_vars

\* A second launch with another blockNum and other callers has completed a
\* round on the object the first launch left with flag_ = 1.
C10_Witness ==
  /\ used = 1 /\ FullLaunch /\ blockNum = 2 /\ parts = {2, 3}
  /\ \A u \in parts : done[u] = 1
  /\ flag_ = 0

\* ------------------------------------------------------------------ C9
\* Allocations no Memory object owns and no running call still refers to.
Unowned == Live \ (owned \cup {cptr, sptr})

\* C9: exception-safe acquisition.  When a call of safeAlloc has ended in an
\* exception, everything it acquired is released: the stream and the guard are
\* gone and no allocation is left without an owner.
C9_NoLeakOnFailure ==
  (apc = "idle" /\ outcome = "failed") =>
    /\ ~stream /\ ~guard
    /\ Unowned = {}

\* ----------------------------------------------------------------- C11
\* Units other than u that have incremented count_ in the call u is making.
ArrivedBefore(u) == {v \in parts \ {u} : Arrivals(v) >= done[u] + 1}

\* The coordinator of u performs the atomicInc of its call in this step.
Increments(u) == pc[u][Coordinator] = "inc" /\ pc'[u][Coordinator] # "inc"

\* C11: unique releaser.  With blockNum = N > 1, the old value an atomicInc
\* observes is the number of units that arrived earlier in the same round; the
\* unit takes the branch that writes flag_ exactly when N-1 units arrived before
\* it, so no arrival before the N-th writes the flag, and at no time are two
\* units about to write it.
C11_UniqueReleaser ==
  /\ [](blockNum > 1 =>
          Cardinality({u \in parts : pc[u][Coordinator] = "set"}) <= 1)
  /\ [][blockNum > 1 =>
          \A u \in parts :
            Increments(u) =>
              /\ count_ = Cardinality(ArrivedBefore(u))
              /\ pc'[u][Coordinator] = "set"
                   <=> Cardinality(ArrivedBefore(u)) = blockNum - 1]_vars

\* In the last round the last of NumUnits arrivals is about to write flag_
\* while all the others poll.
C11_Witness ==
  /\ FullLaunch /\ blockNum = NumUnits
  /\ \E u \in parts :
       /\ pc[u][Coordinator] = "set" /\ done[u] = MaxRounds - 1
       /\ \A v \in parts \ {u} : pc[v][Coordinator] = "poll" /\ done[v] = done[u]

\* ----------------------------------------------------------------- C12
\* The coordinator of u performs its store to flag_ in this step.
WritesFlag(u) == pc[u][Coordinator] = "set" /\ pc'[u][Coordinator] # "set"

\* C12: single writer of the flag.  flag_ only changes in the step in which a
\* releaser stores to it, and the releaser of the k-th round on a
\* zero-initialized object always changes it, to k mod 2: so it changes once
\* per round, round after round.
C12_SingleWriter ==
  /\ [][flag_' # flag_ => \E u \in parts : WritesFlag(u)]_vars
  /\ [][\A u \in parts :
          WritesFlag(u) => flag_' # flag_ /\ flag_' = FlagAfter(done[u] + 1)]_vars

\* The releaser of the second round has written flag_ back to 0 and every
\* other unit still polls in that round.
C12_Witness ==
  /\ FullLaunch /\ blockNum = NumUnits /\ flag_ = 0
  /\ \A u \in parts : pc[u][Coordinator] = "poll" /\ done[u] = 1

\* ----------------------------------------------------------------- C13
\* The atomic increments made so far in the calls of this launch: one for each
\* unit and each call in which it has passed its atomicInc.
ArrivalCount ==
  Cardinality({c \in parts \X (1..MaxRounds) : c[2] <= Arrivals(c[1])})

\* C13: counter range and wrap.  With blockNum = N > 1, count_ stays within
\* 0..N-1 and equals the number of increments made modulo N (each call
\* increments once, the N-th arrival of a round wraps the counter to 0), and
\* count_ is 0 while the releaser is about to write flag_.
C13_CounterRange ==
  blockNum > 1 =>
    /\ count_ \in 0..(blockNum - 1)
    /\ count_ = ArrivalCount % blockNum
    /\ \A u \in parts : pc[u][Coordinator] = "set" => count_ = 0

\* The last arrival of the second round has wrapped count_ to 0 and is about
\* to write flag_.
C13_Witness ==
  /\ FullLaunch /\ blockNum = NumUnits
  /\ count_ = 0 /\ ArrivalCount = 2 * NumUnits
  /\ \E u \in parts : pc[u][Coordinator] = "set"

\* ----------------------------------------------------------------- C14
\* Unit u polls in a round in which not all blockNum units have arrived yet.
WaitsForArrivals(u) ==
  /\ pc[u][Coordinator] = "poll"
  /\ Cardinality(ArrivedBefore(u)) < blockNum - 1

\* C14: no cross-round aliasing.  A unit that polls in round k+1 before all
\* units have arrived in it reads the value round k left in flag_, which is not
\* its target: its poll condition holds and it goes on waiting, also while
\* other units are still leaving round k.  So the calls any two participants
\* have returned from differ by at most one.
C14_NoAliasing ==
  blockNum > 1 =>
    /\ \A u \in parts :
         WaitsForArrivals(u) =>
           /\ flag_ = FlagAfter(done[u])
           /\ tmp[u] = FlagAfter(done[u] + 1)
           /\ PollCond(tmp[u], flag_)
    /\ \A u, v \in parts : done[u] - done[v] <= 1

\* u polls in the second round, reading the 1 the first round left in flag_,
\* while v has not yet recorded the first round in isIncFlag_.
C14_Witness ==
  /\ FullLaunch
  /\ \E u, v \in parts :
       /\ pc[u][Coordinator] = "poll" /\ done[u] = 1 /\ flag_ = 1
       /\ pc[v][Coordinator] = "store" /\ done[v] = 0

\* ----------------------------------------------------------------- C15
\* Rounds unit u has recorded in isIncFlag_.
Stored(u) == done[u] + IF pc[u][Coordinator] = "sync2" THEN 1 ELSE 0

\* The latest round some unit has recorded.
RoundsRecorded ==
  CHOOSE k \in 0..MaxRounds :
    /\ \E u \in parts : Stored(u) = k
    /\ \A u \in parts : Stored(u) <= k

\* All participants have returned from round k and none has entered the next.
AllBetweenRounds(k) ==
  \A u \in parts : done[u] = k /\ \A t \in Threads(u) : pc[u][t] = "out"

\* C15: isIncFlag_ toggles once per completed round.  It holds the parity of
\* the latest round some coordinator has recorded (the first store of a round
\* changes it, the other stores of that round rewrite the same value); a
\* coordinator about to store has observed flag_ equal to its target, which
\* flag_ still holds; and when all units are between rounds k and k+1 of a
\* zero-initialized object, isIncFlag_ = flag_ = k mod 2.
C15_ExpectedFlagToggles ==
  blockNum > 1 =>
    /\ isIncFlag_ = FlagAfter(RoundsRecorded)
    /\ \A u \in parts : pc[u][Coordinator] = "store" => flag_ = tmp[u]
    /\ \A k \in 0..MaxRounds :
         AllBetweenRounds(k) => isIncFlag_ = FlagAfter(k) /\ flag_ = FlagAfter(k)

\* One unit has recorded the first round, another is about to store the same
\* value, and the third has not yet left its poll.
C15_Witness ==
  /\ FullLaunch /\ isIncFlag_ = 1
  /\ \E u, v, w \in parts :
       /\ pc[u][Coordinator] = "sync2" /\ done[u] = 0
       /\ pc[v][Coordinator] = "store" /\ tmp[v] = 1
       /\ pc[w][Coordinator] = "poll"

\* ----------------------------------------------------------------- C16
\* The coordinator of u waits, the bound is enabled and its spin budget is
\* used up: its next evaluation of the poll condition overruns maxSpinCount.
Overruns(u) ==
  /\ pc[u][Coordinator] = "poll"
  /\ PollCond(tmp[u], flag_)
  /\ maxSpinCount >= 0 /\ spin[u] = maxSpinCount

\* Unit u takes a step.
Moves(u) ==
  pc'[u] # pc[u] \/ spin'[u] # spin[u] \/ tmp'[u] # tmp[u] \/ done'[u] # done[u]

\* C16: a spin-count overrun is final.  The step a coordinator takes when it
\* overruns maxSpinCount is the fault; a faulted unit takes no further step: it
\* stays faulted, does not return, does not arrive again, and the only changes
\* to count_, flag_ and isIncFlag_ from then on are steps of other units.
C16_FaultIsFinal ==
  /\ [][\A u \in Units : (Overruns(u) /\ Moves(u)) => Faulted(u)']_vars
  /\ [][\A u \in Units : Faulted(u) => Faulted(u)' /\ ~Moves(u)]_vars
  /\ [](\A u \in Units : Faulted(u) => Arrivals(u) = done[u] + 1)

\* u faulted in the first round, which the other units then completed without
\* it: they have returned and u is still faulted, with no call returned.
C16_Witness ==
  /\ FullLaunch /\ blockNum = NumUnits /\ maxSpinCount = MaxSpin
  /\ \E u \in parts :
       /\ Faulted(u) /\ done[u] = 0
       /\ \A v \in parts \ {u} : done[v] = 1 /\ pc[v][Coordinator] = "out"

\* ----------------------------------------------------------------- C17
\* The pointers an allocator has returned to its caller.
HandedOut == owned \cup (IF sptr # 0 THEN {sptr} ELSE {})

\* What a field of a DeviceSyncer placed in allocation a can read as at first
\* use: 0 in zero-filled memory, anything in memory not (yet) written.
FieldValues(a) == IF heap[a] = "zero" THEN {0} ELSE {0, 1}

\* The targets a first call of sync can compute from isIncFlag_ in a.
FirstTargets(a) == {Xor1(b) : b \in FieldValues(a)}

\* C17: zero-filled at handoff.  An allocator reaches its return, and a pointer
\* is in the caller's hands, only with the memory zero-filled: for the device
\* allocators the memset has been queued and its stream synchronized, for the
\* host allocator memset has run.  A call that fails hands out no pointer.  So
\* the fields of a DeviceSyncer in such memory read 0 at first use and its
\* first round targets flag value 1.
C17_ZeroFilledAtHandoff ==
  /\ [](apc = "return" => heap[cptr] = "zero")
  /\ [](\A a \in HandedOut :
          heap[a] = "zero" /\ FieldValues(a) = {0} /\ FirstTargets(a) = {1})
  /\ [](apc \in {"throw", "catch"} => sptr = 0)
  /\ [][(apc \in {"throw", "catch"}) => (owned' \subseteq owned)]_vars

\* Two zero-filled allocations are in the caller's hands, the last one handed
\* out by the host allocator in the last call.
C17_Witness ==
  /\ apc = "idle" /\ outcome = "returned" /\ kind = "cudaHostCalloc"
  /\ Cardinality(owned) = 2 /\ calls = MaxCalls
  /\ \A a \in owned : heap[a] = "zero"

\* ----------------------------------------------------------------- C18
\* The round unit u polls in has been released: all blockNum units have
\* arrived in it and its releaser has made its store to flag_.
Released(u) ==
  /\ pc[u][Coordinator] = "poll"
  /\ Cardinality(ArrivedBefore(u)) = blockNum - 1
  /\ \A v \in parts : pc[v][Coordinator] # "set"

\* C18: the releaser neither waits nor faults.  Its store to flag_ leaves its
\* own poll condition false with no spin counted; the condition of a unit that
\* polls in a released round stays false, since nobody writes flag_ again before
\* that unit has left the poll; and a step into the fault is never taken by a
\* unit whose round has been released, whatever maxSpinCount is, 0 included.
C18_ReleaserNeverWaits ==
  /\ [][\A u \in parts :
          WritesFlag(u) => ~PollCond(tmp[u], flag_') /\ spin'[u] = 0]_vars
  /\ [](\A u \in parts : Released(u) => ~PollCond(tmp[u], flag_))
  /\ [][\A u \in parts :
          (pc[u][Coordinator] = "poll" /\ Faulted(u)') => ~Released(u)]_vars

\* With maxSpinCount = 0 the releaser has written flag_ and every unit, the
\* releaser included, is about to read it for the first time.
C18_Witness ==
  /\ FullLaunch /\ blockNum = FewUnits /\ maxSpinCount = 0
  /\ \A u \in parts : Released(u) /\ spin[u] = 0

\* ----------------------------------------------------------------- C19
\* The coordinator holds the target of its round in tmp.
TargetHeld == {"inc", "set", "poll", "store", "fault"}

\* C19: one target per round.  Whatever a coordinator's read of isIncFlag_ for
\* round k+1 returns, the value in memory or that of a store racing with it,
\* is the value recorded for round k, k mod 2 on a zero-initialized object; so
\* every coordinator of round k+1 computes the target (k+1) mod 2, and two
\* coordinators in the same round hold the same target.
C19_SameTarget ==
  blockNum > 1 =>
    /\ \A u \in parts :
         pc[u][Coordinator] = "load" => IsIncFlagReads = {FlagAfter(done[u])}
    /\ \A u \in parts :
         pc[u][Coordinator] \in TargetHeld => tmp[u] = FlagAfter(done[u] + 1)
    /\ \A u, v \in parts :
         (/\ pc[u][Coordinator] \in TargetHeld
          /\ pc[v][Coordinator] \in TargetHeld
          /\ done[u] = done[v]) => tmp[u] = tmp[v]

\* u reads isIncFlag_ for the second round while v, still in the first round,
\* is about to store to it.
C19_Witness ==
  /\ FullLaunch
  /\ \E u, v \in parts :
       /\ pc[u][Coordinator] = "load" /\ done[u] = 1
       /\ pc[v][Coordinator] = "store" /\ done[v] = 0

====
